---- MODULE Spec2Model ----
(***************************************************************************)
(* Verification model of the NNS aggregation layer:                        *)
(*   - TextGateway / ImageGateway .generate (default provider, then one    *)
(*     backup provider) and .create, src/src/gateways/*.ts                 *)
(*   - the base adapters: constructor, makeRequest, validateModelInternal  *)
(*     and the per-provider fetchModels, src/src/adapters/base/*.ts        *)
(*   - the text adapters' generate, src/src/adapters/text/*.ts             *)
(*   - the image adapters' generate, src/src/adapters/image/*.ts           *)
(*   - the plugin lifecycle (onload, onunload, registerAiNNS,              *)
(*     unregisterAiNNS) and the SecretsManager                             *)
(*                                                                         *)
(* Seven specifications share the module:                                  *)
(*   Spec           the gateway: concurrent generate calls against         *)
(*                  adapters whose generate may return or raise            *)
(*   SpecValidator  one adapter: validateModelInternal called again and    *)
(*                  again, driven by the HTTP responses of the provider's  *)
(*                  model-list endpoint                                    *)
(*   SpecAdapter    one text adapter: construction, then generate calls    *)
(*                  (validation, generation request, its response)         *)
(*   SpecCreate     one run of Gateway.create over settings.providers      *)
(*   SpecImage      one image adapter and one call of its generate         *)
(*   SpecLifecycle  the plugin enabled and disabled by Obsidian while      *)
(*                  onload is at one of its awaits                         *)
(*   SpecSecrets    one SecretsManager: the initial load interleaved with  *)
(*                  setSecret, getSecret, deleteSecret and the saves       *)
(***************************************************************************)
EXTENDS Naturals, Integers, Sequences, FiniteSets, TLC

(***************************************************************************)
(* Bounds                                                                  *)
(***************************************************************************)
\* number of generate calls that may be issued (and overlap) on one gateway
MaxCalls == 2
\* number of pages the anthropic model-list endpoint may spread a list over
MaxPages == 2
\* number of provider keys settings.providers may hold
MaxProviders == 3

\* how often Obsidian enables the plugin
MaxLoads == 2

\* calls of setSecret, getSecret and deleteSecret on one SecretsManager
MaxSecretCalls == 2

(***************************************************************************)
(* Gateway state                                                           *)
(***************************************************************************)
VARIABLES
    gwKind,             \* "text" (TextGateway) or "image" (ImageGateway)
    adapters,           \* keys of the gateway's adapters record
    defaultProvider,    \* this.defaultProvider
    backupProvider,     \* this.backupProvider ("" = none configured)
    calls               \* one record per generate call

gwVars == <<gwKind, adapters, defaultProvider, backupProvider, calls>>

(***************************************************************************)
(* Adapter state (one text adapter: constructor, validateModelInternal,    *)
(* generate)                                                               *)
(***************************************************************************)
VARIABLES
    aProvider,      \* providerKey of the adapter
    aCredential,    \* the apiKey argument the constructor was called with
    aApiKey,        \* this.apiKey (trimmed by the constructor)
    aDefaultModel,  \* this.defaultModel
    vPc,            \* "new", "rejected" (constructor threw), "idle",
                    \* "fetching" (awaiting the list endpoint), "validated",
                    \* "requesting" (awaiting the generation endpoint),
                    \* "returned", "raised" (generate has settled)
    vRequested,     \* the `model` argument of the validation in progress
    vAttempt,       \* number of the list request awaited (api version / page)
    vAcc,           \* ids accumulated over pages (anthropic)
    vFetched,       \* what fetchModels gave validateModelInternal
    vResult,        \* what validateModelInternal settled with
    vEarlier,       \* what fetchModels gave the adapter's previous validation
    gSent,          \* generation requests of the generate call, with their answers
    gResult         \* what generate settled with

adVars == <<aProvider, aCredential, aApiKey, aDefaultModel, vPc, vRequested,
            vAttempt, vAcc, vFetched, vResult, vEarlier, gSent, gResult>>

(***************************************************************************)
(* Gateway construction state (one run of TextGateway / ImageGateway       *)
(* .create, which fills gwKind's `adapters`)                               *)
(***************************************************************************)
VARIABLES
    cSettings,      \* Object.keys(settings.providers), in iteration order
    cPc,            \* "called", "loop", "awaitSecret", "done" (gw returned),
                    \* "failed" (create rejected)
    cIdx,           \* position of the loop in cSettings
    cLog            \* what the loop did with each key it has visited

crVars == <<cSettings, cPc, cIdx, cLog>>

(***************************************************************************)
(* Image adapter state (one image adapter and one call of its generate)    *)
(***************************************************************************)
VARIABLES
    iProvider,      \* "openai" (OpenAIImageAdapter) or "grok" (GrokImageAdapter)
    iDefaultModel,  \* this.defaultModel
    iPc,            \* "idle", "listing" (grok awaits the model list),
                    \* "requesting", "returned", "raised"
    iRequest,       \* the ImageRequest of the call
    iBody,          \* the body handed to makeRequest
    iResult         \* what generate returned or raised

imVars == <<iProvider, iDefaultModel, iPc, iRequest, iBody, iResult>>

(***************************************************************************)
(* Plugin lifecycle state                                                  *)
(***************************************************************************)
VARIABLES
    plugins,        \* the plugin instances Obsidian has enabled so far, with
                    \* the position of each one's onload
    windowAiNNS     \* window.aiNNS: Absent, or the index of the plugin instance
                    \* whose gateway the registered API closes over

plVars == <<plugins, windowAiNNS>>

(***************************************************************************)
(* SecretsManager state                                                    *)
(***************************************************************************)
VARIABLES
    sFile,          \* the secrets file in the vault
    sSecrets,       \* this.secrets
    sIsLoaded,      \* this.isLoaded
    sLoadPc,        \* position of loadSecretsFromFile (this.loadPromise is
                    \* null iff "done")
    sSaves,         \* the calls of saveSecretsToFile, in call order
    sCalls,         \* the calls of getSecret and deleteSecret, in call order
    sLastSet        \* per key: the value of the last setSecret since the key
                    \* was last deleted (history)

smVars == <<sFile, sSecrets, sIsLoaded, sLoadPc, sSaves, sCalls, sLastSet>>

sideVars == <<imVars, plVars, smVars>>

vars == <<gwVars, adVars, crVars, sideVars>>

\* provider keys that settings may name as default / backup provider
ProviderKeys == {"openai", "gemini", "local"}

\* keys for which create() has a case in its switch, per gateway
TextAdapterKeys == {"openai", "gemini"}
ImageAdapterKeys == {"openai"}

CallIds == 1..MaxCalls

\* LLMRequest / ImageRequest values a caller passes
Requests == {[prompt |-> "Hello"], [prompt |-> "Draw"]}

\* LLMResponse values an LLMAdapter may resolve to
LLMResponses == {[output |-> o, tokensUsed |-> 0] : o \in {"", "ok"}}

\* ImageResponse values an ImageAdapter may resolve to
ImageResponses == {[imageUrls |-> u] : u \in {<< >>, <<"https://img/1">>}}

AdapterResponses(kind) == IF kind = "text" THEN LLMResponses ELSE ImageResponses

\* messages of the errors an adapter's generate may raise
AdapterErrorMessages == {"503"}

NoError == [origin |-> "none", call |-> 0, attempt |-> 0, message |-> ""]
NoResponse == [output |-> "none", tokensUsed |-> 0]

\* the Error object raised by the attempt-th adapter invocation of call c
AdapterError(provider, c, attempt, msg) ==
    [origin |-> provider, call |-> c, attempt |-> attempt, message |-> msg]

\* new Error(`No adapter found for default provider: ${this.defaultProvider}`)
NoAdapterError(c) ==
    [origin |-> "gateway", call |-> c, attempt |-> 0,
     message |-> "No adapter found for default provider"]

IdleCall ==
    [pc |-> "idle", request |-> [prompt |-> ""], invoked |-> << >>,
     result |-> [kind |-> "none", value |-> "", error |-> NoError]]

\* one adapter.generate invocation that has been started
Invocation(tier, provider, request) ==
    [tier |-> tier, provider |-> provider, request |-> request,
     status |-> "pending", response |-> NoResponse, error |-> NoError]

InitGateway ==
    /\ gwKind \in {"text", "image"}
    /\ adapters \in SUBSET (IF gwKind = "text" THEN TextAdapterKeys ELSE ImageAdapterKeys)
    /\ defaultProvider \in ProviderKeys \cup {""}
    /\ backupProvider \in ProviderKeys \cup {""}
    /\ calls = [c \in CallIds |-> IdleCall]

(***************************************************************************)
(* Gateway.generate                                                        *)
(***************************************************************************)
\* TextGateway: `return res.output` / `return fallback.output`
TextReturn(res) == res.output

\* ImageGateway: `return await primary.generate(request)`
ImageReturn(res) == res

GatewayReturn(res) == IF gwKind = "text" THEN TextReturn(res) ELSE ImageReturn(res)

\* this.adapters[key] is truthy
HasAdapter(key) == key \in adapters

\* the condition of the catch block: this.backupProvider && this.adapters[this.backupProvider]
BackupAvailable == backupProvider # "" /\ HasAdapter(backupProvider)

Returned(call, res) ==
    [call EXCEPT !.pc = "returned",
                 !.result = [kind |-> "value", value |-> GatewayReturn(res), error |-> NoError]]

Thrown(call, err) ==
    [call EXCEPT !.pc = "thrown",
                 !.result = [kind |-> "error", value |-> "", error |-> err]]

\* the adapter invocation the call is awaiting settles
Settle(call, status, res, err) ==
    [call EXCEPT !.invoked[Len(call.invoked)] =
        [@ EXCEPT !.status = status, !.response = res, !.error = err]]

\* variant: one fallback at a time; while another call awaits the backup
\* adapter the catch block rethrows
CatchHandlerOneFallback(call, err) ==
    IF BackupAvailable /\ \A d \in CallIds : calls[d].pc # "awaitBackup"
    THEN [call EXCEPT !.pc = "awaitBackup",
                      !.invoked = Append(@, Invocation("backup", backupProvider, call.request))]
    ELSE Thrown(call, err)

\* variant: the catch block never tries the backup provider
CatchHandlerNoFallback(call, err) == Thrown(call, err)

\* variant: without a backup the catch block throws a new error built from err
CatchHandlerWrapsError(call, err) ==
    IF BackupAvailable
    THEN [call EXCEPT !.pc = "awaitBackup",
                      !.invoked = Append(@, Invocation("backup", backupProvider, call.request))]
    ELSE Thrown(call, [err EXCEPT !.origin = "gateway"])

\* catch (err) { if (backup && adapters[backup]) { await adapters[backup].generate(request) ... } throw err; }
CatchHandler(call, err) ==
    IF BackupAvailable
    THEN [call EXCEPT !.pc = "awaitBackup",
                      !.invoked = Append(@, Invocation("backup", backupProvider, call.request))]
    ELSE Thrown(call, err)

\* const primary = this.adapters[this.defaultProvider]; try { if (!primary) throw ...; await primary.generate(request)
EnterGenerate(call, c, req) ==
    LET entered == [call EXCEPT !.request = req] IN
    IF HasAdapter(defaultProvider)
    THEN [entered EXCEPT !.pc = "awaitDefault",
                         !.invoked = <<Invocation("default", defaultProvider, req)>>]
    ELSE CatchHandler(entered, NoAdapterError(c))

\* variant: an empty output of the default adapter is treated as a failure
PrimaryResolvedUnlessEmpty(call, res) ==
    IF gwKind = "text" /\ res.output = ""
    THEN CatchHandler(Settle(call, "ok", res, NoError), NoAdapterError(0))
    ELSE Returned(Settle(call, "ok", res, NoError), res)

\* const res = await primary.generate(request); return res.output;
PrimaryResolved(call, res) == Returned(Settle(call, "ok", res, NoError), res)

\* primary.generate rejected: control enters the catch block
PrimaryRejected(call, err) == CatchHandler(Settle(call, "raised", NoResponse, err), err)

\* const fallback = await this.adapters[this.backupProvider].generate(request); return fallback.output;
FallbackResolved(call, res) == Returned(Settle(call, "ok", res, NoError), res)

\* variant: the error of the default adapter is what leaves generate
FallbackRejectedRethrowsFirst(call, err) ==
    Thrown(Settle(call, "raised", NoResponse, err), call.invoked[1].error)

\* the backup adapter's generate rejected inside the catch block: its error leaves generate
FallbackRejected(call, err) == Thrown(Settle(call, "raised", NoResponse, err), err)

\* --- actions ---------------------------------------------------------------

\* a caller invokes gateway.generate(req); runs up to the first await
Generate(c, req) ==
    /\ calls[c].pc = "idle"
    /\ calls' = [calls EXCEPT ![c] = EnterGenerate(calls[c], c, req)]
    /\ UNCHANGED <<gwKind, adapters, defaultProvider, backupProvider, adVars, crVars, sideVars>>

\* the default adapter's generate resolves
DefaultReturns(c, res) ==
    /\ calls[c].pc = "awaitDefault"
    /\ calls' = [calls EXCEPT ![c] = PrimaryResolved(calls[c], res)]
    /\ UNCHANGED <<gwKind, adapters, defaultProvider, backupProvider, adVars, crVars, sideVars>>

\* the default adapter's generate rejects
DefaultRaises(c, msg) ==
    /\ calls[c].pc = "awaitDefault"
    /\ calls' = [calls EXCEPT ![c] =
                    PrimaryRejected(calls[c], AdapterError(defaultProvider, c, 1, msg))]
    /\ UNCHANGED <<gwKind, adapters, defaultProvider, backupProvider, adVars, crVars, sideVars>>

\* the backup adapter's generate resolves
BackupReturns(c, res) ==
    /\ calls[c].pc = "awaitBackup"
    /\ calls' = [calls EXCEPT ![c] = FallbackResolved(calls[c], res)]
    /\ UNCHANGED <<gwKind, adapters, defaultProvider, backupProvider, adVars, crVars, sideVars>>

\* the backup adapter's generate rejects
BackupRaises(c, msg) ==
    /\ calls[c].pc = "awaitBackup"
    /\ calls' = [calls EXCEPT ![c] =
                    FallbackRejected(calls[c],
                        AdapterError(backupProvider, c, Len(calls[c].invoked), msg))]
    /\ UNCHANGED <<gwKind, adapters, defaultProvider, backupProvider, adVars, crVars, sideVars>>

NextGateway ==
    \/ \E c \in CallIds, req \in Requests : Generate(c, req)
    \/ \E c \in CallIds, res \in AdapterResponses(gwKind) : DefaultReturns(c, res)
    \/ \E c \in CallIds, msg \in AdapterErrorMessages : DefaultRaises(c, msg)
    \/ \E c \in CallIds, res \in AdapterResponses(gwKind) : BackupReturns(c, res)
    \/ \E c \in CallIds, msg \in AdapterErrorMessages : BackupRaises(c, msg)

(***************************************************************************)
(* Model identifiers                                                       *)
(*                                                                         *)
(* A model id is the sequence of its '/'-separated segments:               *)
(* "models/gemini-pro" is <<"models", "gemini-pro">>, "" is << >>.         *)
(***************************************************************************)
EmptyString == << >>

\* the value of an absent optional field (req.model not supplied)
Undefined == <<"<undefined>">>

\* JavaScript truthiness of a `string | undefined`
Truthy(m) == m # Undefined /\ m # EmptyString

(***************************************************************************)
(* Strings whose whitespace matters (credentials, generated text) are       *)
(* sequences of characters                                                 *)
(***************************************************************************)
RECURSIVE TrimStart(_)
TrimStart(s) == IF s # << >> /\ Head(s) = " " THEN TrimStart(Tail(s)) ELSE s

RECURSIVE TrimEnd(_)
TrimEnd(s) ==
    IF s # << >> /\ s[Len(s)] = " " THEN TrimEnd(SubSeq(s, 1, Len(s) - 1)) ELSE s

\* String.prototype.trim()
Trim(s) == TrimEnd(TrimStart(s))

\* m.replace(/^models\//, '')
StripModelsPrefix(m) == IF Len(m) >= 2 /\ m[1] = "models" THEN Tail(m) ELSE m

\* first segments that begin with the characters "gemini"
GeminiNamed == {"gemini-pro", "gemini-1.5-pro-latest", "gemini-1.5-flash-latest"}

\* m.startsWith('gemini')
StartsWithGemini(m) == Len(m) >= 1 /\ m[1] \in GeminiNamed

\* providers whose base adapter (validateModelInternal + fetchModels) is modelled
ValidatorProviders == {"grok", "groq", "anthropic", "gemini"}

\* providerMetadata[key].defaultModel
RegistryDefaultModel(p) ==
    CASE p = "grok"      -> <<"grok-1">>
      [] p = "groq"      -> <<"mixtral-8x7b-32768">>
      [] p = "anthropic" -> <<"claude-3-opus-20240229">>
      [] p = "gemini"    -> <<"models", "gemini-pro">>

\* private fallbackModel = '...' of the provider's text adapter
FallbackModel(p) ==
    CASE p = "grok"      -> <<"grok-1">>
      [] p = "groq"      -> <<"llama3-8b-8192">>
      [] p = "anthropic" -> <<"claude-3-5-sonnet-20241022">>
      [] p = "gemini"    -> <<"gemini-1.5-pro-latest">>

\* ids the provider's model-list endpoint may name in a response
ListedIds(p) ==
    CASE p = "grok"      -> {<<"grok-1">>, <<"grok-beta">>, <<"grok-2">>}
      [] p = "groq"      -> {<<"mixtral-8x7b-32768">>, <<"llama3-8b-8192">>, <<"gemma-7b-it">>}
      [] p = "anthropic" -> {<<"claude-3-opus-20240229">>, <<"claude-3-5-sonnet-20241022">>,
                             <<"claude-3-haiku-20240307">>}
      [] p = "gemini"    -> {<<"models", "gemini-pro">>, <<"models", "gemini-1.5-pro-latest">>,
                             <<"gemini-1.5-flash-latest">>, <<"models", "embedding-001">>}

\* values settings.providers[key].model may hold when the adapter is built
ConfiguredModels(p) ==
    {RegistryDefaultModel(p), EmptyString} \cup
    (CASE p = "grok"      -> {<<"grok-beta">>}
       [] p = "groq"      -> {<<"gemma-7b-it">>}
       [] p = "anthropic" -> {<<"claude-3-haiku-20240307">>}
       [] p = "gemini"    -> {<<"gemini-pro">>, <<"gemini-1.5-flash-latest">>})

\* values of req.model a caller may pass
RequestedModels(p) ==
    {Undefined, EmptyString, <<"gpt-9000">>} \cup
    (CASE p = "grok"      -> {<<"grok-1">>, <<"grok-2">>}
       [] p = "groq"      -> {<<"llama3-8b-8192">>, <<"gemma-7b-it">>}
       [] p = "anthropic" -> {<<"claude-3-5-sonnet-20241022">>, <<"claude-3-haiku-20240307">>}
       [] p = "gemini"    -> {<<"gemini-pro">>, <<"models", "gemini-pro">>,
                              <<"gemini-1.5-pro-latest">>})

(***************************************************************************)
(* fetchModels: the provider's live model list                             *)
(***************************************************************************)
\* what requestUrl does with one GET of the model-list endpoint: it throws
\* (transport failure), or yields a status and a body; a 200 body is well
\* formed (carries the id array) or not; anthropic pages carry has_more / last_id
ListResponses(p, attempt) ==
    {[throws |-> TRUE, status |-> 0, wellFormed |-> FALSE, ids |-> {},
      has_more |-> FALSE, last_id |-> FALSE]}
    \cup
    {[throws |-> FALSE, status |-> 500, wellFormed |-> FALSE, ids |-> {},
      has_more |-> FALSE, last_id |-> FALSE]}
    \cup
    {[throws |-> FALSE, status |-> 200, wellFormed |-> FALSE, ids |-> {},
      has_more |-> FALSE, last_id |-> FALSE]}
    \cup
    {[throws |-> FALSE, status |-> 200, wellFormed |-> TRUE, ids |-> ids,
      has_more |-> more, last_id |-> (ids # {})] :
        ids \in SUBSET ListedIds(p),
        more \in (IF p = "anthropic" /\ attempt < MaxPages THEN BOOLEAN ELSE {FALSE})}

\* results of a fetchModels call: it threw, or it returned a list; `source`
\* records whether the returned list came from the provider
FetchThrew == [threw |-> TRUE, models |-> {}, source |-> "error"]
FetchLive(ms) == [threw |-> FALSE, models |-> ms, source |-> "live"]
FetchBuiltin(ms) == [threw |-> FALSE, models |-> ms, source |-> "builtin"]

NotFetched == [threw |-> FALSE, models |-> {}, source |-> "none"]

\* GrokBaseAdapter.fetchModels: one GET; status >= 400 throws;
\* (response.json).data?.map(m => m.id).sort() ?? []
GrokFetchModels(resp) ==
    IF resp.throws THEN FetchThrew
    ELSE IF resp.status >= 400 THEN FetchThrew
    ELSE IF ~resp.wellFormed THEN FetchLive({})
    ELSE FetchLive(resp.ids)

\* GroqBaseAdapter.fetchModels: same shape as grok's
GroqFetchModels(resp) ==
    IF resp.throws THEN FetchThrew
    ELSE IF resp.status >= 400 THEN FetchThrew
    ELSE IF ~resp.wellFormed THEN FetchLive({})
    ELSE FetchLive(resp.ids)

\* one iteration of AnthropicBaseAdapter.fetchModels' while (hasMore) loop:
\* models.push(...ids); hasMore = data.has_more; afterId = data.last_id;
\* if (!hasMore || !afterId) break;
AnthropicFetchPage(acc, resp) ==
    IF resp.throws \/ resp.status >= 400 \/ ~resp.wellFormed
    THEN [done |-> TRUE, fetched |-> FetchThrew, acc |-> acc]
    ELSE LET models == acc \cup resp.ids IN
         IF ~resp.has_more \/ ~resp.last_id
         THEN [done |-> TRUE, fetched |-> FetchLive(models), acc |-> models]
         ELSE [done |-> FALSE, fetched |-> NotFetched, acc |-> models]

\* const apiVersions = ['v1', 'v1beta'] of GeminiBaseAdapter.fetchModels
apiVersions == <<"v1", "v1beta">>

\* the list GeminiBaseAdapter.fetchModels returns from its outer catch
GeminiBuiltinModels == {<<"gemini-1.5-pro-latest">>, <<"gemini-1.5-flash-latest">>}

\* data.models.map(m => m.name.replace(/^models\//, '')).filter(m => m.startsWith('gemini'))
GeminiListed(ids) == {m \in {StripModelsPrefix(n) : n \in ids} : StartsWithGemini(m)}

\* one iteration of GeminiBaseAdapter.fetchModels' loop over apiVersions; when
\* the last version has failed, the outer catch returns the built-in list
GeminiFetchVersion(attempt, resp) ==
    IF ~resp.throws /\ resp.status = 200 /\ resp.wellFormed
    THEN [done |-> TRUE, fetched |-> FetchLive(GeminiListed(resp.ids)), acc |-> {}]
    ELSE IF attempt < Len(apiVersions)
         THEN [done |-> FALSE, fetched |-> NotFetched, acc |-> {}]
         ELSE [done |-> TRUE, fetched |-> FetchBuiltin(GeminiBuiltinModels), acc |-> {}]

\* the effect of one HTTP response on the provider's fetchModels
FetchStep(p, attempt, acc, resp) ==
    CASE p = "grok"      -> [done |-> TRUE, fetched |-> GrokFetchModels(resp), acc |-> acc]
      [] p = "groq"      -> [done |-> TRUE, fetched |-> GroqFetchModels(resp), acc |-> acc]
      [] p = "anthropic" -> AnthropicFetchPage(acc, resp)
      [] p = "gemini"    -> GeminiFetchVersion(attempt, resp)

(***************************************************************************)
(* validateModelInternal                                                   *)
(***************************************************************************)
\* const normalizedModels = availableModels.map(m => m.replace(/^models\//, ''))
\* (gemini only; the other base adapters consult availableModels itself)
NormalizedModels(p, availableModels) ==
    IF p = "gemini" THEN {StripModelsPrefix(m) : m \in availableModels}
    ELSE availableModels

ValidatorRaise == [raised |-> TRUE, model |-> Undefined, via |-> "raise"]
ValidatorReturn(m, via) == [raised |-> FALSE, model |-> m, via |-> via]

\* variant: fallbackModel || defaultModel
FinalFallbackPrefersFallback(defaultModel, fallbackModel) ==
    IF Truthy(fallbackModel) THEN fallbackModel ELSE defaultModel

\* const finalFallback = defaultModel || fallbackModel
FinalFallback(defaultModel, fallbackModel) ==
    IF Truthy(defaultModel) THEN defaultModel ELSE fallbackModel

\* variant: the default model is tested before the candidate
ValidateTryDefaultFirst(p, model, defaultModel, fallbackModel, fetched) ==
    LET candidateModel == IF Truthy(model) THEN model ELSE defaultModel
        models == NormalizedModels(p, fetched.models)
    IN  IF fetched.threw THEN ValidatorRaise
        ELSE IF defaultModel \in models THEN ValidatorReturn(defaultModel, "default")
        ELSE IF candidateModel \in models THEN ValidatorReturn(candidateModel, "candidate")
        ELSE IF fallbackModel \in models THEN ValidatorReturn(fallbackModel, "fallback")
        ELSE ValidatorRaise

\* the try block: await fetchModels, then the three includes() tests; anything
\* else throws `No valid ... models available.`
ValidateTry(p, model, defaultModel, fallbackModel, fetched) ==
    LET candidateModel == IF Truthy(model) THEN model ELSE defaultModel
        models == NormalizedModels(p, fetched.models)
    IN  IF fetched.threw THEN ValidatorRaise
        ELSE IF candidateModel \in models THEN ValidatorReturn(candidateModel, "candidate")
        ELSE IF defaultModel \in models THEN ValidatorReturn(defaultModel, "default")
        ELSE IF fallbackModel \in models THEN ValidatorReturn(fallbackModel, "fallback")
        ELSE ValidatorRaise

\* variant: no catch block, the error of the try block leaves the validator
validateModelInternalRethrows(p, model, defaultModel, fallbackModel, fetched) ==
    ValidateTry(p, model, defaultModel, fallbackModel, fetched)

\* try { ... } catch (error) { return defaultModel || fallbackModel }
validateModelInternal(p, model, defaultModel, fallbackModel, fetched) ==
    LET attempt == ValidateTry(p, model, defaultModel, fallbackModel, fetched) IN
    IF attempt.raised
    THEN ValidatorReturn(FinalFallback(defaultModel, fallbackModel), "final")
    ELSE attempt

(***************************************************************************)
(* Adapter construction                                                    *)
(***************************************************************************)
\* apiKey arguments a constructor may be called with
Credentials == {Undefined, EmptyString, <<" ">>, <<" ", "s", "k">>}

ConstructorThrew == [threw |-> TRUE, apiKey |-> Undefined]

\* variant: only an absent credential is refused
BaseConstructorAcceptsEmpty(apiKey) ==
    IF apiKey = Undefined THEN ConstructorThrew
    ELSE [threw |-> FALSE, apiKey |-> Trim(apiKey)]

\* constructor(apiKey) of the base adapters:
\* if (!apiKey) throw new Error('... API key is required.'); this.apiKey = apiKey.trim()
BaseConstructor(apiKey) ==
    IF ~Truthy(apiKey) THEN ConstructorThrew
    ELSE [threw |-> FALSE, apiKey |-> Trim(apiKey)]

\* credentials an adapter may hold after construction
AdapterKeys ==
    {BaseConstructor(c).apiKey : c \in {k \in Credentials : ~BaseConstructor(k).threw}}

(***************************************************************************)
(* The generation request and its answer                                   *)
(***************************************************************************)
\* variant: the request names the model the caller asked for
GenerationRequestAsAsked(p, model, version) ==
    LET asked == IF Truthy(vRequested) THEN vRequested ELSE model IN
    IF p = "gemini"
    THEN [apiVersion |-> apiVersions[version], path |-> <<"models">> \o asked,
          op |-> "generateContent", bodyModel |-> Undefined]
    ELSE [apiVersion |-> "v1",
          path |-> IF p = "anthropic" THEN <<"messages">> ELSE <<"chat", "completions">>,
          op |-> "", bodyModel |-> asked]

\* the request generate hands to makeRequest: url parts and the body's model
\* (gemini names the model in the url, `models/${model}:generateContent`)
GenerationRequest(p, model, version) ==
    IF p = "gemini"
    THEN [apiVersion |-> apiVersions[version], path |-> <<"models">> \o model,
          op |-> "generateContent", bodyModel |-> Undefined]
    ELSE [apiVersion |-> "v1",
          path |-> IF p = "anthropic" THEN <<"messages">> ELSE <<"chat", "completions">>,
          op |-> "", bodyModel |-> model]

\* generated text a provider may put into a response
Texts == {EmptyString, <<" ">>, <<"h", "i">>, <<" ", "h", "i", " ">>}

\* what requestUrl does with one generation request: it throws, or yields a
\* response: status; `parses` (reading response.json succeeds); errorMessage
\* (json.error.message); text (the raw body); content (the nested generated
\* text of the json, Undefined when the nesting is absent); usage (the token
\* count of the json, << >> when absent)
GenerationResponses ==
    {[throws |-> TRUE, status |-> 0, parses |-> FALSE, errorMessage |-> "", text |-> "",
      content |-> Undefined, usage |-> << >>]}
    \cup
    {[throws |-> FALSE, status |-> st, parses |-> b[1], errorMessage |-> b[2], text |-> b[3],
      content |-> Undefined, usage |-> << >>] :
        st \in {429, 500},
        b \in {<<TRUE, "overloaded", "{json}">>, <<TRUE, "", "busy">>, <<TRUE, "", "">>,
               <<FALSE, "", "busy">>}}
    \cup
    {[throws |-> FALSE, status |-> 200, parses |-> TRUE, errorMessage |-> "", text |-> "{json}",
      content |-> c, usage |-> IF c = <<"h", "i">> THEN <<7>> ELSE << >>] :
        c \in Texts \cup {Undefined}}
    \cup
    {[throws |-> FALSE, status |-> 200, parses |-> FALSE, errorMessage |-> "", text |-> "busy",
      content |-> Undefined, usage |-> << >>]}

NoGenerationResponse ==
    [throws |-> FALSE, status |-> 0, parses |-> FALSE, errorMessage |-> "", text |-> "",
     content |-> Undefined, usage |-> << >>]

\* Error objects of an adapter; for origin "http" the message is
\* `${providerKey} error ${status}: ${body}${guidance}`
NoFailure == [origin |-> "none", provider |-> "", status |-> 0, body |-> "", guidance |-> ""]

\* what requestUrl itself throws
TransportError ==
    [origin |-> "requestUrl", provider |-> "", status |-> 0, body |-> "", guidance |-> ""]

\* what reading response.json throws
JsonError == [origin |-> "json", provider |-> "", status |-> 0, body |-> "", guidance |-> ""]

\* new Error(`${this.providerKey} error ${response.status}` + ...)
HttpError(p, status, body, guidance) ==
    [origin |-> "http", provider |-> p, status |-> status, body |-> body, guidance |-> guidance]

\* new Error('Unexpected ... API response format')
FormatError(p) ==
    [origin |-> "format", provider |-> p, status |-> 0, body |-> "", guidance |-> ""]

\* response.json?.error?.message || response.text || 'No additional details';
\* the catch (parseError) branch gives 'Failed to parse error details'
ErrorBody(resp) ==
    IF ~resp.parses THEN "Failed to parse error details"
    ELSE IF resp.errorMessage # "" THEN resp.errorMessage
    ELSE IF resp.text # "" THEN resp.text
    ELSE "No additional details"

\* the sentence makeRequest appends for the status (none when reading the body threw)
Guidance(p, resp) ==
    IF ~resp.parses THEN ""
    ELSE IF resp.status = 401 THEN "Invalid API key"
    ELSE IF resp.status = 404 /\ p = "gemini" THEN "Endpoint incorrect for API version"
    ELSE IF resp.status = 400 THEN "Check request parameters"
    ELSE IF p = "anthropic" THEN ""
    ELSE IF resp.status = 429 THEN "Rate limit exceeded"
    ELSE IF resp.status = 403 THEN "Check your API key permissions"
    ELSE IF resp.status >= 500 THEN "Server error"
    ELSE ""

RequestThrew(err) == [threw |-> TRUE, error |-> err]
RequestReturned == [threw |-> FALSE, error |-> NoFailure]

\* variant: the status of the response is not looked at
makeRequestIgnoresStatus(p, resp) ==
    IF resp.throws THEN RequestThrew(TransportError)
    ELSE IF ~resp.parses THEN RequestThrew(JsonError)
    ELSE RequestReturned

\* makeRequest: await requestUrl(...); if (response.status >= 400) throw new
\* Error(errorMessage); return response.json; the catch rethrows
makeRequest(p, resp) ==
    IF resp.throws THEN RequestThrew(TransportError)
    ELSE IF resp.status >= 400
         THEN RequestThrew(HttpError(p, resp.status, ErrorBody(resp), Guidance(p, resp)))
    ELSE IF ~resp.parses THEN RequestThrew(JsonError)
    ELSE RequestReturned

\* how generate settles
NoGenerateResult ==
    [kind |-> "none", output |-> Undefined, tokensUsed |-> 0, error |-> NoFailure]
GenerateValue(output, tokensUsed) ==
    [kind |-> "value", output |-> output, tokensUsed |-> tokensUsed, error |-> NoFailure]
GenerateError(err) ==
    [kind |-> "error", output |-> Undefined, tokensUsed |-> 0, error |-> err]

\* data.usage?.total_tokens || 0
TokensUsed(usage) == IF usage = << >> THEN 0 ELSE usage[1]

\* if (!data.choices || ... || !data.choices[0]?.message?.content) throw new
\* Error('Unexpected ... response format');
\* return { output: content.trim(), tokensUsed }
ParseResponse(p, data) ==
    IF ~Truthy(data.content) THEN GenerateError(FormatError(p))
    ELSE GenerateValue(Trim(data.content), TokensUsed(data.usage))

\* the try block of generate, from makeRequest's answer on
TryRequest(p, resp) ==
    LET made == makeRequest(p, resp) IN
    IF made.threw THEN GenerateError(made.error) ELSE ParseResponse(p, resp)

\* variant: gemini's catch rethrows like the other adapters
GenerateStepNoRetry(p, n, resp) ==
    [done |-> TRUE, outcome |-> TryRequest(p, resp)]

\* the effect of the answer to the n-th generation request on generate:
\* grok, groq and anthropic rethrow in their catch; gemini's loop over
\* this.apiVersions does `lastError = error; continue` and throws lastError
\* after the last version
GenerateStep(p, n, resp) ==
    LET outcome == TryRequest(p, resp) IN
    IF p = "gemini" /\ outcome.kind = "error" /\ n < Len(apiVersions)
    THEN [done |-> FALSE, outcome |-> outcome]
    ELSE [done |-> TRUE, outcome |-> outcome]

\* a generation request in flight
Sent(request) ==
    [request |-> request, response |-> NoGenerationResponse, outcome |-> NoGenerateResult]

(***************************************************************************)
(* One adapter: actions                                                    *)
(***************************************************************************)
NoResult == [raised |-> FALSE, model |-> Undefined, via |-> "none"]

\* an adapter between two calls
AdapterIdle ==
    /\ vPc = "idle"
    /\ vRequested = Undefined
    /\ vAttempt = 0
    /\ vAcc = {}
    /\ vFetched = NotFetched
    /\ vResult = NoResult
    /\ vEarlier = NotFetched
    /\ gSent = << >>
    /\ gResult = NoGenerateResult

\* a constructed adapter on which validateModelInternal has not run yet
InitAdapter ==
    /\ aProvider \in ValidatorProviders
    /\ aCredential \in {k \in Credentials : ~BaseConstructor(k).threw}
    /\ aApiKey = BaseConstructor(aCredential).apiKey
    /\ aDefaultModel \in ConfiguredModels(aProvider)
    /\ AdapterIdle

\* a text adapter class about to be instantiated
InitNewAdapter ==
    /\ aProvider \in ValidatorProviders
    /\ aCredential = Undefined
    /\ aApiKey = Undefined
    /\ aDefaultModel = Undefined
    /\ vPc = "new"
    /\ vRequested = Undefined
    /\ vAttempt = 0
    /\ vAcc = {}
    /\ vFetched = NotFetched
    /\ vResult = NoResult
    /\ vEarlier = NotFetched
    /\ gSent = << >>
    /\ gResult = NoGenerateResult

\* new XTextAdapter(apiKey, defaultModel): super(apiKey); this.defaultModel = defaultModel
NewAdapter(apiKey, defaultModel) ==
    /\ vPc = "new"
    /\ aCredential' = apiKey
    /\ LET built == BaseConstructor(apiKey) IN
       IF built.threw
       THEN /\ vPc' = "rejected"
            /\ UNCHANGED <<aApiKey, aDefaultModel>>
       ELSE /\ vPc' = "idle"
            /\ aApiKey' = built.apiKey
            /\ aDefaultModel' = defaultModel
    /\ UNCHANGED <<aProvider, vRequested, vAttempt, vAcc, vFetched, vResult, vEarlier,
                   gSent, gResult, gwVars, crVars, sideVars>>

\* fetchModels' `if (!apiKey) throw` inside its try: the base adapters rethrow,
\* gemini's outer catch returns the built-in list
FetchWithoutKey(p) ==
    IF p = "gemini" THEN FetchBuiltin(GeminiBuiltinModels) ELSE FetchThrew

\* variant: a list delivered to an earlier validation is kept and consulted
ConsultedListKept(earlier, fetched) ==
    IF earlier.source = "live" THEN earlier ELSE fetched

\* const availableModels = await XBaseAdapter.fetchModels(this.apiKey): the list
\* consulted is the one this call fetched; the adapter has no field for a list
ConsultedList(earlier, fetched) == fetched

\* validateModelInternal resumes with the outcome of fetchModels
Validated(m, fetched) ==
    /\ vPc' = "validated"
    /\ vFetched' = fetched
    /\ vResult' = validateModelInternal(aProvider, m, aDefaultModel,
                                        FallbackModel(aProvider),
                                        ConsultedList(vEarlier, fetched))

\* generate calls this.validateModelInternal(req.model, this.defaultModel, this.fallbackModel):
\* runs up to the first list request
ValidateModel(m) ==
    /\ vPc = "idle"
    /\ vRequested' = m
    /\ vAcc' = {}
    /\ IF aApiKey = EmptyString
       THEN /\ Validated(m, FetchWithoutKey(aProvider))
            /\ vAttempt' = 0
       ELSE /\ vPc' = "fetching"
            /\ vAttempt' = 1
            /\ UNCHANGED <<vFetched, vResult>>
    /\ UNCHANGED <<aProvider, aCredential, aApiKey, aDefaultModel, vEarlier,
                   gSent, gResult, gwVars, crVars, sideVars>>

\* the model-list endpoint answers the request in flight
ListResponse(resp) ==
    /\ vPc = "fetching"
    /\ LET step == FetchStep(aProvider, vAttempt, vAcc, resp) IN
       /\ vAcc' = step.acc
       /\ IF step.done
          THEN /\ Validated(vRequested, step.fetched)
               /\ UNCHANGED <<vAttempt, vRequested>>
          ELSE /\ vAttempt' = vAttempt + 1
               /\ UNCHANGED <<vPc, vFetched, vResult, vRequested>>
    /\ UNCHANGED <<aProvider, aCredential, aApiKey, aDefaultModel, vEarlier,
                   gSent, gResult, gwVars, crVars, sideVars>>

\* the caller of validateModelInternal takes the validated model; the adapter
\* keeps nothing of the call
ValidateReturn ==
    /\ vPc = "validated"
    /\ vPc' = "idle"
    /\ vRequested' = Undefined
    /\ vAttempt' = 0
    /\ vAcc' = {}
    /\ vFetched' = NotFetched
    /\ vResult' = NoResult
    /\ vEarlier' = vFetched
    /\ UNCHANGED <<aProvider, aCredential, aApiKey, aDefaultModel, gSent, gResult, gwVars, crVars, sideVars>>

\* generate resumes with the validated model, builds the body and sends the
\* first generation request
SendRequest ==
    /\ vPc = "validated"
    /\ vPc' = "requesting"
    /\ gSent' = <<Sent(GenerationRequest(aProvider, vResult.model, 1))>>
    /\ UNCHANGED <<aProvider, aCredential, aApiKey, aDefaultModel, vRequested, vAttempt,
                   vAcc, vFetched, vResult, vEarlier, gResult, gwVars, crVars, sideVars>>

\* the generation endpoint answers the request in flight
GenerationResponse(resp) ==
    /\ vPc = "requesting"
    /\ LET n == Len(gSent)
           step == GenerateStep(aProvider, n, resp)
           answered == [gSent EXCEPT ![n].response = resp, ![n].outcome = step.outcome]
       IN  IF step.done
           THEN /\ gSent' = answered
                /\ gResult' = step.outcome
                /\ vPc' = IF step.outcome.kind = "value" THEN "returned" ELSE "raised"
           ELSE /\ gSent' = Append(answered,
                                   Sent(GenerationRequest(aProvider, vResult.model, n + 1)))
                /\ UNCHANGED <<vPc, gResult>>
    /\ UNCHANGED <<aProvider, aCredential, aApiKey, aDefaultModel, vRequested, vAttempt,
                   vAcc, vFetched, vResult, vEarlier, gwVars, crVars, sideVars>>

\* the caller of generate takes the result or the error; the adapter keeps
\* nothing of the call
GenerateReturn ==
    /\ vPc \in {"returned", "raised"}
    /\ vPc' = "idle"
    /\ vRequested' = Undefined
    /\ vAttempt' = 0
    /\ vAcc' = {}
    /\ vFetched' = NotFetched
    /\ vResult' = NoResult
    /\ gSent' = << >>
    /\ gResult' = NoGenerateResult
    /\ UNCHANGED <<aProvider, aCredential, aApiKey, aDefaultModel, vEarlier, gwVars, crVars, sideVars>>

NextValidator ==
    \/ \E m \in RequestedModels(aProvider) : ValidateModel(m)
    \/ \E resp \in ListResponses(aProvider, vAttempt) : ListResponse(resp)
    \/ ValidateReturn

NextAdapter ==
    \/ \E apiKey \in Credentials, defaultModel \in ConfiguredModels(aProvider) :
            NewAdapter(apiKey, defaultModel)
    \/ \E m \in RequestedModels(aProvider) : ValidateModel(m)
    \/ \E resp \in ListResponses(aProvider, vAttempt) : ListResponse(resp)
    \/ SendRequest
    \/ \E resp \in GenerationResponses : GenerationResponse(resp)
    \/ GenerateReturn

(***************************************************************************)
(* Gateway construction: TextGateway.create / ImageGateway.create          *)
(***************************************************************************)
\* keys settings.providers may hold: two text providers, one text and image
\* provider, the provider that needs no credential, a key the registry lacks
ConfigKeys == {"gemini", "grok", "openai", "local", "legacy"}

\* keys of providerMetadata
MetadataKeys ==
    {"openai", "local", "anthropic", "groq", "gemini", "openrouter", "grok", "stabilityai"}

\* providerMetadata[key].requiresApiKey
RequiresApiKey(key) == key # "local"

\* ['openai', 'stabilityai', 'grok'] of ImageGateway.create
ImageCapableKeys == {"openai", "stabilityai", "grok"}

\* the case labels of create's switch (key)
SwitchCases(kind) ==
    IF kind = "text"
    THEN {"openai", "anthropic", "grok", "openrouter", "gemini", "groq"}
    ELSE {"openai"}

\* sequences of at most n distinct elements of S
DistinctSeqs(S, n) ==
    {q \in UNION {[1..k -> S] : k \in 0..n} :
        \A i, j \in DOMAIN q : i # j => q[i] # q[j]}

\* constructor of OpenAIBaseAdapter (super(apiKey) of the openai adapters)
OpenAIBaseConstructor(apiKey) ==
    IF ~Truthy(apiKey) THEN ConstructorThrew
    ELSE [threw |-> FALSE, apiKey |-> Trim(apiKey)]

\* new XAdapter(apiKey!, model) of the switch
AdapterConstructor(key, apiKey) ==
    IF key = "openai" THEN OpenAIBaseConstructor(apiKey) ELSE BaseConstructor(apiKey)

\* the loop body up to `await secrets.getSecret(key)`: ImageGateway skips keys
\* it does not list and keys without metadata; TextGateway reads
\* providerMetadata[key].requiresApiKey unguarded (a TypeError when the key
\* has no metadata)
BeforeSecret(kind, key) ==
    IF kind = "image" /\ key \notin ImageCapableKeys THEN "not-image-capable"
    ELSE IF kind = "image" /\ key \notin MetadataKeys THEN "no-metadata"
    ELSE IF key \notin MetadataKeys THEN "type-error"
    ELSE IF RequiresApiKey(key) THEN "awaitSecret"
    ELSE "switch"

\* variant: a missing credential does not end the iteration
AfterSecretNoSkip(apiKey) == "switch"

\* if (!apiKey) { console.warn('... Skipping adapter.'); continue; }
AfterSecret(apiKey) == IF ~Truthy(apiKey) THEN "no-credential" ELSE "switch"

\* switch (key) { case ...: adapter = new XAdapter(apiKey!, model); break;
\*                default: console.warn('Unsupported provider'); continue; }
Switch(kind, key, apiKey) ==
    IF key \notin SwitchCases(kind)
    THEN [outcome |-> "unsupported", apiKey |-> Undefined]
    ELSE LET built == AdapterConstructor(key, apiKey) IN
         IF built.threw THEN [outcome |-> "constructor-threw", apiKey |-> Undefined]
         ELSE [outcome |-> "adapter", apiKey |-> built.apiKey]

\* what the loop notes of a key: whether getSecret was awaited and what it
\* gave, how the iteration ended, the credential the adapter holds
Visit(key, asked, secret, outcome, apiKey) ==
    [key |-> key, asked |-> asked, secret |-> secret, outcome |-> outcome, apiKey |-> apiKey]

\* outcomes that reject the promise create returned
Rejecting == {"type-error", "constructor-threw"}

InitCreate ==
    /\ gwKind \in {"text", "image"}
    /\ adapters = {}
    /\ defaultProvider = "openai"
    /\ backupProvider = ""
    /\ calls = [c \in CallIds |-> IdleCall]
    /\ cSettings \in DistinctSeqs(ConfigKeys, MaxProviders)
    /\ cPc = "called"
    /\ cIdx = 0
    /\ cLog = << >>

\* the loop goes on after the i-th key, or create returns gw
Continue(i) ==
    /\ cIdx' = i + 1
    /\ cPc' = IF i + 1 > Len(cSettings) THEN "done" ELSE "loop"

\* the iteration for the key at cIdx ends with `outcome`
EndVisit(asked, secret, outcome, apiKey) ==
    /\ cLog' = Append(cLog, Visit(cSettings[cIdx], asked, secret, outcome, apiKey))
    /\ adapters' = IF outcome = "adapter" THEN adapters \cup {cSettings[cIdx]} ELSE adapters
    /\ IF outcome \in Rejecting
       THEN cPc' = "failed" /\ UNCHANGED cIdx
       ELSE Continue(cIdx)

\* const gw = new XGateway(defaultProvider, backupProvider); the loop starts
Create ==
    /\ cPc = "called"
    /\ Continue(0)
    /\ UNCHANGED <<cSettings, cLog, gwVars, adVars, sideVars>>

\* one iteration, up to the await of getSecret or, without one, to its end
VisitProvider ==
    /\ cPc = "loop"
    /\ LET key == cSettings[cIdx]
           first == BeforeSecret(gwKind, key)
       IN  IF first = "awaitSecret"
           THEN /\ cPc' = "awaitSecret"
                /\ UNCHANGED <<cIdx, cLog, adapters>>
           ELSE IF first = "switch"
           THEN LET sw == Switch(gwKind, key, Undefined) IN
                EndVisit(FALSE, Undefined, sw.outcome, sw.apiKey)
           ELSE EndVisit(FALSE, Undefined, first, Undefined)
    /\ UNCHANGED <<cSettings, gwKind, defaultProvider, backupProvider, calls, adVars, sideVars>>

\* secrets.getSecret(key) resolves with the stored credential or undefined
SecretReturns(apiKey) ==
    /\ cPc = "awaitSecret"
    /\ LET then == AfterSecret(apiKey) IN
       IF then = "switch"
       THEN LET sw == Switch(gwKind, cSettings[cIdx], apiKey) IN
            EndVisit(TRUE, apiKey, sw.outcome, sw.apiKey)
       ELSE EndVisit(TRUE, apiKey, then, Undefined)
    /\ UNCHANGED <<cSettings, gwKind, defaultProvider, backupProvider, calls, adVars, sideVars>>

NextCreate ==
    \/ Create
    \/ VisitProvider
    \/ \E apiKey \in Credentials : SecretReturns(apiKey)

(***************************************************************************)
(* Image adapters: OpenAIImageAdapter.generate, GrokImageAdapter.generate  *)
(***************************************************************************)
ImageProviders == {"openai", "grok"}

\* the default of the constructor's model parameter
ConstructorDefaultModel(p) ==
    IF p = "openai" THEN <<"dall-e-3">> ELSE <<"grok-2-image-1212">>

\* const supportedModels = ['dall-e-3', 'dall-e-2', 'gpt-image-1']
supportedModels == {<<"dall-e-3">>, <<"dall-e-2">>, <<"gpt-image-1">>}

\* const maxN = { 'dall-e-3': 1, 'dall-e-2': 10, 'gpt-image-1': 10 }
maxN(model) == IF model = <<"dall-e-3">> THEN 1 ELSE 10

\* the limit of the xAI API: Math.min(request.n || 1, 10)
GrokMaxN == 10

\* request.n: << >> when absent, <<k>> when the request has n = k
NoCount == << >>

RequestedCounts == {NoCount, <<0 - 1>>, <<0>>, <<1>>, <<2>>, <<10>>, <<11>>}

\* request.n || 1
OrOne(n) == IF n = NoCount \/ n[1] = 0 THEN 1 ELSE n[1]

Min(a, b) == IF a <= b THEN a ELSE b

\* variant: the requested count is sent as it is
ImageCountUnclamped(n, limit) == OrOne(n)

\* const n = Math.min(request.n || 1, maxN[model])
ImageCount(n, limit) == Min(OrOne(n), limit)

ImageRequestModels ==
    {Undefined, EmptyString, <<"grok-2-image-1212">>, <<"dall-e-4">>} \cup supportedModels

Prompts == {<<" ">>, <<"c", "a", "t">>}

ImageRequests == [model : ImageRequestModels, n : RequestedCounts, prompt : Prompts]

\* what GrokBaseAdapter.fetchImageModels(this.apiKey) gives: GrokBaseAdapter
\* declares no such static method, so the call may throw; where it exists it
\* resolves to a list of model ids
ImageModelLists ==
    {[threw |-> TRUE, ids |-> {}],
     [threw |-> FALSE, ids |-> {}],
     [threw |-> FALSE, ids |-> {<<"grok-2-image-1212">>}]}

\* what `await this.makeRequest('images/generations', body, 'POST')` gives
ImageApiResponses ==
    {[threw |-> TRUE, hasData |-> FALSE, images |-> << >>],
     [threw |-> FALSE, hasData |-> FALSE, images |-> << >>],
     [threw |-> FALSE, hasData |-> TRUE, images |-> <<"b64">>],
     [threw |-> FALSE, hasData |-> TRUE, images |-> <<"">>]}

NoBody == [model |-> Undefined, n |-> 0, prompt |-> EmptyString]

NoImageResult == [kind |-> "none", origin |-> "", imageUrls |-> << >>]

ImageError(origin) == [kind |-> "error", origin |-> origin, imageUrls |-> << >>]

ImageValue(urls) == [kind |-> "value", origin |-> "", imageUrls |-> urls]

\* const model = request.model || this.defaultModel
ImageModel(request) == IF Truthy(request.model) THEN request.model ELSE iDefaultModel

\* OpenAIImageAdapter.generate up to makeRequest: an unsupported model throws
OpenAIImageBody(request) ==
    LET model == ImageModel(request) IN
    IF model \notin supportedModels
    THEN [threw |-> TRUE, error |-> ImageError("unsupported-model"), body |-> NoBody]
    ELSE [threw |-> FALSE, error |-> NoImageResult,
          body |-> [model |-> model, n |-> ImageCount(request.n, maxN(model)),
                    prompt |-> request.prompt]]

\* GrokImageAdapter.generate between the model list and makeRequest
GrokImageBody(request, list) ==
    LET model == ImageModel(request) IN
    IF list.threw
    THEN [threw |-> TRUE, error |-> ImageError("model-list"), body |-> NoBody]
    ELSE IF model \notin list.ids
    THEN [threw |-> TRUE, error |-> ImageError("unsupported-model"), body |-> NoBody]
    ELSE IF Trim(request.prompt) = EmptyString \/ Len(request.prompt) > 1000
    THEN [threw |-> TRUE, error |-> ImageError("prompt"), body |-> NoBody]
    ELSE [threw |-> FALSE, error |-> NoImageResult,
          body |-> [model |-> model, n |-> ImageCount(request.n, GrokMaxN),
                    prompt |-> request.prompt]]

\* the try block after makeRequest; every error is rethrown by the catch as
\* 'Failed to generate image: ...'
ImageParse(resp) ==
    IF resp.threw THEN ImageError("request")
    ELSE IF ~resp.hasData THEN ImageError("format")
    ELSE IF \E k \in 1..Len(resp.images) : resp.images[k] = "" THEN ImageError("format")
    ELSE ImageValue(resp.images)

\* --- actions ---------------------------------------------------------------
ImageIdle ==
    /\ iPc = "idle"
    /\ iRequest = [model |-> Undefined, n |-> NoCount, prompt |-> EmptyString]
    /\ iBody = NoBody
    /\ iResult = NoImageResult

\* new OpenAIImageAdapter(apiKey, model) / new GrokImageAdapter(apiKey, model)
InitImage ==
    /\ iProvider \in ImageProviders
    /\ iDefaultModel \in {ConstructorDefaultModel(iProvider), <<"dall-e-2">>, <<"dall-e-4">>}
    /\ ImageIdle

\* adapter.generate(request), up to its first await
ImageGenerate(request) ==
    /\ iPc = "idle"
    /\ iRequest' = request
    /\ IF iProvider = "grok"
       THEN /\ iPc' = "listing"
            /\ UNCHANGED <<iBody, iResult>>
       ELSE LET step == OpenAIImageBody(request) IN
            /\ iPc' = IF step.threw THEN "raised" ELSE "requesting"
            /\ iBody' = step.body
            /\ iResult' = step.error
    /\ UNCHANGED <<iProvider, iDefaultModel, gwVars, adVars, crVars, plVars, smVars>>

\* GrokBaseAdapter.fetchImageModels settles
ImageModelsListed(list) ==
    /\ iPc = "listing"
    /\ LET step == GrokImageBody(iRequest, list) IN
       /\ iPc' = IF step.threw THEN "raised" ELSE "requesting"
       /\ iBody' = step.body
       /\ iResult' = step.error
    /\ UNCHANGED <<iProvider, iDefaultModel, iRequest, gwVars, adVars, crVars, plVars, smVars>>

\* makeRequest settles
ImageResponse(resp) ==
    /\ iPc = "requesting"
    /\ iResult' = ImageParse(resp)
    /\ iPc' = IF iResult'.kind = "value" THEN "returned" ELSE "raised"
    /\ UNCHANGED <<iProvider, iDefaultModel, iRequest, iBody, gwVars, adVars, crVars, plVars, smVars>>

NextImage ==
    \/ \E request \in ImageRequests : ImageGenerate(request)
    \/ \E list \in ImageModelLists : ImageModelsListed(list)
    \/ \E resp \in ImageApiResponses : ImageResponse(resp)

(***************************************************************************)
(* Plugin lifecycle: MyPlugin.onload / onunload, registerAiNNS,            *)
(* unregisterAiNNS                                                         *)
(***************************************************************************)
\* window.aiNNS is absent
Absent == 0

\* onload of a plugin instance has just been called
NewPlugin == [pc |-> "initialize", unloaded |-> FALSE]

\* the plugin instance Obsidian currently holds enabled, if any
Enabled(i) == i = Len(plugins) /\ ~plugins[i].unloaded

\* the i-th instance's onload proceeds from the await at `from` to `to`
Proceed(i, from, to) ==
    /\ i \in 1..Len(plugins)
    /\ plugins[i].pc = from
    /\ plugins' = [plugins EXCEPT ![i].pc = to]

\* --- actions ---------------------------------------------------------------
InitLifecycle ==
    /\ plugins = << >>
    /\ windowAiNNS = Absent

\* Obsidian enables the plugin: onload runs up to `await this.secrets.initialize()`
Enable ==
    /\ Len(plugins) < MaxLoads
    /\ Len(plugins) > 0 => plugins[Len(plugins)].unloaded
    /\ plugins' = Append(plugins, NewPlugin)
    /\ UNCHANGED <<windowAiNNS, gwVars, adVars, crVars, imVars, smVars>>

\* `await this.secrets.initialize()` resolves
SecretsInitialized(i) ==
    /\ Proceed(i, "initialize", "listSecrets")
    /\ UNCHANGED <<windowAiNNS, gwVars, adVars, crVars, imVars, smVars>>

\* `await this.secrets.listSecrets()` settles (a rejection is caught)
SecretsListed(i) ==
    /\ Proceed(i, "listSecrets", "loadSettings")
    /\ UNCHANGED <<windowAiNNS, gwVars, adVars, crVars, imVars, smVars>>

\* `await this.loadSettings()` settles; a rejection leaves onload
SettingsLoaded(i, ok) ==
    /\ Proceed(i, "loadSettings", IF ok THEN "getSecret" ELSE "failed")
    /\ UNCHANGED <<windowAiNNS, gwVars, adVars, crVars, imVars, smVars>>

\* `await this.secrets.getSecret("openai")` settles (a rejection is caught);
\* registerAiNNS is called and runs up to `await TextGateway.create(...)`
SecretRead(i) ==
    /\ Proceed(i, "getSecret", "registerAiNNS")
    /\ UNCHANGED <<windowAiNNS, gwVars, adVars, crVars, imVars, smVars>>

\* TextGateway.create resolves: `window.aiNNS = {...}` closing over textGw;
\* the rest of onload has no await
GatewayCreated(i) ==
    /\ Proceed(i, "registerAiNNS", "loaded")
    /\ windowAiNNS' = i
    /\ UNCHANGED <<gwVars, adVars, crVars, imVars, smVars>>

\* TextGateway.create rejects: registerAiNNS rejects, onload catches and goes on
GatewayFailed(i) ==
    /\ Proceed(i, "registerAiNNS", "loaded")
    /\ UNCHANGED <<windowAiNNS, gwVars, adVars, crVars, imVars, smVars>>

\* Obsidian disables the plugin: onunload calls unregisterAiNNS
Disable(i) ==
    /\ i \in 1..Len(plugins)
    /\ Enabled(i)
    /\ plugins' = [plugins EXCEPT ![i].unloaded = TRUE]
    /\ windowAiNNS' = Absent
    /\ UNCHANGED <<gwVars, adVars, crVars, imVars, smVars>>

NextLifecycle ==
    \/ Enable
    \/ \E i \in 1..MaxLoads : SecretsInitialized(i)
    \/ \E i \in 1..MaxLoads : SecretsListed(i)
    \/ \E i \in 1..MaxLoads, ok \in BOOLEAN : SettingsLoaded(i, ok)
    \/ \E i \in 1..MaxLoads : SecretRead(i)
    \/ \E i \in 1..MaxLoads : GatewayCreated(i)
    \/ \E i \in 1..MaxLoads : GatewayFailed(i)
    \/ \E i \in 1..MaxLoads : Disable(i)

(***************************************************************************)
(* SecretsManager: constructor, loadSecretsFromFile, saveSecretsToFile,    *)
(* setSecret, getSecret, deleteSecret                                      *)
(***************************************************************************)
SecretKeys == {"openai", "grok"}

SecretValues == {"sk-new"}

\* this.secrets[key] of a key the record does not have
NoSecret == "<undefined>"

\* private secrets: Record<string, string> = {}
EmptySecrets == [key \in SecretKeys |-> NoSecret]

\* what the secrets file may hold when the SecretsManager is constructed
SecretFiles ==
    {[state |-> "missing", data |-> EmptySecrets],
     [state |-> "empty", data |-> EmptySecrets],
     [state |-> "corrupt", data |-> EmptySecrets],
     [state |-> "json", data |-> EmptySecrets],
     [state |-> "json", data |-> [EmptySecrets EXCEPT !["openai"] = "sk-old"]]}

\* saveSecretsToFile has been called and awaits ensureDirectoryExists
NewSave(owner) == [owner |-> owner, pc |-> "ensureDir", data |-> EmptySecrets]

\* calls of setSecret, getSecret and deleteSecret made so far
SecretCallsMade ==
    Len(sCalls) + Cardinality({k \in 1..Len(sSaves) : sSaves[k].owner = "set"})

\* the condition under which getSecret and deleteSecret await the load
AwaitsLoad == ~sIsLoaded /\ sLoadPc # "done"

\* a call of setSecret or deleteSecret for key: what setSecret stored before
\* is no longer what the getSecret calls still waiting are to return
Superseded(key) ==
    [k \in 1..Len(sCalls) |->
        IF sCalls[k].key = key /\ sCalls[k].pc = "waiting"
        THEN [sCalls[k] EXCEPT !.expected = NoSecret]
        ELSE sCalls[k]]

\* the catch and finally blocks of loadSecretsFromFile after a rejected await
LoadFailed ==
    /\ sSecrets' = EmptySecrets
    /\ sIsLoaded' = TRUE
    /\ sLoadPc' = "done"

\* `if (this.secrets.hasOwnProperty(key)) { delete ...; await save }` of deleteSecret
PerformDelete(key) ==
    IF sSecrets[key] # NoSecret
    THEN /\ sSecrets' = [sSecrets EXCEPT ![key] = NoSecret]
         /\ sSaves' = Append(sSaves, NewSave("delete"))
    ELSE UNCHANGED <<sSecrets, sSaves>>

\* --- actions ---------------------------------------------------------------
\* new SecretsManager(app): the constructor starts loadSecretsFromFile, which
\* runs up to `await this.ensureDirectoryExists()`
InitSecrets ==
    /\ sFile \in SecretFiles
    /\ sSecrets = EmptySecrets
    /\ sIsLoaded = FALSE
    /\ sLoadPc = "ensureDir"
    /\ sSaves = << >>
    /\ sCalls = << >>
    /\ sLastSet = EmptySecrets

\* load: ensureDirectoryExists settles
LoadDirectoryEnsured(ok) ==
    /\ sLoadPc = "ensureDir"
    /\ IF ok
       THEN /\ sLoadPc' = "exists"
            /\ UNCHANGED <<sSecrets, sIsLoaded>>
       ELSE LoadFailed
    /\ UNCHANGED <<sFile, sSaves, sCalls, sLastSet, gwVars, adVars, crVars, imVars, plVars>>

\* load: `await this.vault.adapter.exists(SECRETS_FILE_PATH)` settles
LoadExists(ok) ==
    /\ sLoadPc = "exists"
    /\ IF ~ok
       THEN LoadFailed /\ UNCHANGED sSaves
       ELSE IF sFile.state = "missing"
       THEN /\ sSecrets' = EmptySecrets
            /\ sSaves' = Append(sSaves, NewSave("load"))
            /\ sLoadPc' = "saving"
            /\ UNCHANGED sIsLoaded
       ELSE /\ sLoadPc' = "read"
            /\ UNCHANGED <<sSecrets, sSaves, sIsLoaded>>
    /\ UNCHANGED <<sFile, sCalls, sLastSet, gwVars, adVars, crVars, imVars, plVars>>

\* load: `await this.vault.adapter.read(SECRETS_FILE_PATH)` settles
LoadRead(ok) ==
    /\ sLoadPc = "read"
    /\ IF ~ok
       THEN LoadFailed /\ UNCHANGED sSaves
       ELSE IF sFile.state = "corrupt"
       THEN /\ sSecrets' = EmptySecrets
            /\ sSaves' = Append(sSaves, NewSave("load"))
            /\ sLoadPc' = "saving"
            /\ UNCHANGED sIsLoaded
       ELSE /\ sSecrets' = IF sFile.state = "json" THEN sFile.data ELSE EmptySecrets
            /\ sIsLoaded' = TRUE
            /\ sLoadPc' = "done"
            /\ UNCHANGED sSaves
    /\ UNCHANGED <<sFile, sCalls, sLastSet, gwVars, adVars, crVars, imVars, plVars>>

\* the finally block of the load, once the save it awaited is over
SaveOver(k) ==
    IF sSaves[k].owner = "load"
    THEN sIsLoaded' = TRUE /\ sLoadPc' = "done"
    ELSE UNCHANGED <<sIsLoaded, sLoadPc>>

\* save: ensureDirectoryExists settles; `JSON.stringify(this.secrets)` is
\* taken now; a rejection is logged and ends the save
SaveDirectoryEnsured(k, ok) ==
    /\ k \in 1..Len(sSaves)
    /\ sSaves[k].pc = "ensureDir"
    /\ IF ok
       THEN /\ sSaves' = [sSaves EXCEPT ![k].pc = "write", ![k].data = sSecrets]
            /\ UNCHANGED <<sIsLoaded, sLoadPc>>
       ELSE /\ sSaves' = [sSaves EXCEPT ![k].pc = "done"]
            /\ SaveOver(k)
    /\ UNCHANGED <<sFile, sSecrets, sCalls, sLastSet, gwVars, adVars, crVars, imVars, plVars>>

\* save: `await this.vault.adapter.write(SECRETS_FILE_PATH, data)` settles
SaveWritten(k, ok) ==
    /\ k \in 1..Len(sSaves)
    /\ sSaves[k].pc = "write"
    /\ sSaves' = [sSaves EXCEPT ![k].pc = "done"]
    /\ sFile' = IF ok THEN [state |-> "json", data |-> sSaves[k].data] ELSE sFile
    /\ SaveOver(k)
    /\ UNCHANGED <<sSecrets, sCalls, sLastSet, gwVars, adVars, crVars, imVars, plVars>>

\* setSecret(key, value), up to `await this.saveSecretsToFile()`
SetSecret(key, value) ==
    /\ SecretCallsMade < MaxSecretCalls
    /\ sSecrets' = [sSecrets EXCEPT ![key] = value]
    /\ sSaves' = Append(sSaves, NewSave("set"))
    /\ sLastSet' = [sLastSet EXCEPT ![key] = value]
    /\ sCalls' = Superseded(key)
    /\ UNCHANGED <<sFile, sIsLoaded, sLoadPc, gwVars, adVars, crVars, imVars, plVars>>

\* getSecret(key): returns at once, or awaits this.loadPromise first
GetSecret(key) ==
    /\ SecretCallsMade < MaxSecretCalls
    /\ sCalls' = Append(sCalls,
            [op |-> "get", key |-> key, expected |-> sLastSet[key],
             pc |-> IF AwaitsLoad THEN "waiting" ELSE "done",
             returned |-> IF AwaitsLoad THEN NoSecret ELSE sSecrets[key]])
    /\ UNCHANGED <<sFile, sSecrets, sIsLoaded, sLoadPc, sSaves, sLastSet,
                   gwVars, adVars, crVars, imVars, plVars>>

\* deleteSecret(key): deletes at once, or awaits this.loadPromise first
DeleteSecret(key) ==
    /\ SecretCallsMade < MaxSecretCalls
    /\ sCalls' = Append(Superseded(key),
            [op |-> "delete", key |-> key, expected |-> NoSecret,
             pc |-> IF AwaitsLoad THEN "waiting" ELSE "done",
             returned |-> NoSecret])
    /\ sLastSet' = [sLastSet EXCEPT ![key] = NoSecret]
    /\ IF AwaitsLoad THEN UNCHANGED <<sSecrets, sSaves>> ELSE PerformDelete(key)
    /\ UNCHANGED <<sFile, sIsLoaded, sLoadPc, gwVars, adVars, crVars, imVars, plVars>>

\* the load is over: a getSecret or deleteSecret that awaited it goes on
LoadAwaited(k) ==
    /\ k \in 1..Len(sCalls)
    /\ sCalls[k].pc = "waiting"
    /\ sLoadPc = "done"
    /\ IF sCalls[k].op = "get"
       THEN /\ sCalls' = [sCalls EXCEPT ![k].pc = "done",
                                         ![k].returned = sSecrets[sCalls[k].key]]
            /\ UNCHANGED <<sSecrets, sSaves>>
       ELSE /\ sCalls' = [sCalls EXCEPT ![k].pc = "done"]
            /\ PerformDelete(sCalls[k].key)
    /\ UNCHANGED <<sFile, sIsLoaded, sLoadPc, sLastSet, gwVars, adVars, crVars, imVars, plVars>>

NextSecrets ==
    \/ \E ok \in BOOLEAN : LoadDirectoryEnsured(ok)
    \/ \E ok \in BOOLEAN : LoadExists(ok)
    \/ \E ok \in BOOLEAN : LoadRead(ok)
    \/ \E k \in 1..(MaxSecretCalls + 1), ok \in BOOLEAN : SaveDirectoryEnsured(k, ok)
    \/ \E k \in 1..(MaxSecretCalls + 1), ok \in BOOLEAN : SaveWritten(k, ok)
    \/ \E key \in SecretKeys, value \in SecretValues : SetSecret(key, value)
    \/ \E key \in SecretKeys : GetSecret(key)
    \/ \E key \in SecretKeys : DeleteSecret(key)
    \/ \E k \in 1..MaxSecretCalls : LoadAwaited(k)

(***************************************************************************)
(* Specifications                                                          *)
(***************************************************************************)
\* an adapter at rest (the gateway specification does not look inside adapters)
AdapterAtRest ==
    /\ aProvider = "grok"
    /\ aCredential = <<" ", "s", "k">>
    /\ aApiKey = BaseConstructor(aCredential).apiKey
    /\ aDefaultModel = RegistryDefaultModel("grok")
    /\ AdapterIdle

\* no gateway construction in progress
CreateAtRest ==
    /\ cSettings = << >>
    /\ cPc = "done"
    /\ cIdx = 1
    /\ cLog = << >>

\* a gateway no caller uses (the validator specification has no gateway calls)
GatewayAtRest ==
    /\ gwKind = "text"
    /\ adapters = {}
    /\ defaultProvider = "openai"
    /\ backupProvider = ""
    /\ calls = [c \in CallIds |-> IdleCall]

\* an image adapter no caller uses
ImageAtRest ==
    /\ iProvider = "openai"
    /\ iDefaultModel = ConstructorDefaultModel("openai")
    /\ ImageIdle

\* no plugin instance has been enabled
LifecycleAtRest == InitLifecycle

\* a SecretsManager whose load is over and that nobody calls
SecretsAtRest ==
    /\ sFile = [state |-> "json", data |-> EmptySecrets]
    /\ sSecrets = EmptySecrets
    /\ sIsLoaded = TRUE
    /\ sLoadPc = "done"
    /\ sSaves = << >>
    /\ sCalls = << >>
    /\ sLastSet = EmptySecrets

SideAtRest == ImageAtRest /\ LifecycleAtRest /\ SecretsAtRest

Init == InitGateway /\ AdapterAtRest /\ CreateAtRest /\ SideAtRest

Next == NextGateway

Spec == Init /\ [][Next]_vars

InitValidator == InitAdapter /\ GatewayAtRest /\ CreateAtRest /\ SideAtRest

SpecValidator == InitValidator /\ [][NextValidator]_vars

InitAdapterSpec == InitNewAdapter /\ GatewayAtRest /\ CreateAtRest /\ SideAtRest

SpecAdapter == InitAdapterSpec /\ [][NextAdapter]_vars

InitCreateSpec == InitCreate /\ AdapterAtRest /\ SideAtRest

SpecCreate == InitCreateSpec /\ [][NextCreate]_vars

InitImageSpec ==
    /\ InitImage
    /\ GatewayAtRest /\ AdapterAtRest /\ CreateAtRest /\ LifecycleAtRest /\ SecretsAtRest

SpecImage == InitImageSpec /\ [][NextImage]_vars

InitLifecycleSpec ==
    /\ InitLifecycle
    /\ GatewayAtRest /\ AdapterAtRest /\ CreateAtRest /\ ImageAtRest /\ SecretsAtRest

SpecLifecycle == InitLifecycleSpec /\ [][NextLifecycle]_vars

InitSecretsSpec ==
    /\ InitSecrets
    /\ GatewayAtRest /\ AdapterAtRest /\ CreateAtRest /\ ImageAtRest /\ LifecycleAtRest

SpecSecrets == InitSecretsSpec /\ [][NextSecrets]_vars

(***************************************************************************)
(* Properties of Gateway.generate (specification Spec)                     *)
(***************************************************************************)
\* what the caller of a gateway receives when the gateway hands on `res`
CallerReceives(res) == IF gwKind = "text" THEN res.output ELSE res

DefaultInvoked(call) == Len(call.invoked) >= 1 /\ call.invoked[1].tier = "default"

\* C1: whenever the default provider's adapter generate returns without
\* raising, the gateway call returns that adapter's output and no backup
\* invocation is ever part of the call, whatever the output (also an empty one).
C1_NoFallbackOnSuccess ==
    \A c \in CallIds :
        LET call == calls[c] IN
        (DefaultInvoked(call) /\ call.invoked[1].status = "ok")
            => /\ call.pc = "returned"
               /\ call.result.kind = "value"
               /\ call.result.value = CallerReceives(call.invoked[1].response)
               /\ Len(call.invoked) = 1

\* a text call whose default adapter returned the empty output while another
\* provider's adapter was available as backup
C1_Witness ==
    \E c \in CallIds :
        /\ gwKind = "text"
        /\ BackupAvailable /\ backupProvider # defaultProvider
        /\ DefaultInvoked(calls[c])
        /\ calls[c].invoked[1].status = "ok"
        /\ calls[c].invoked[1].response.output = ""
        /\ calls[c].pc = "returned"

\* C2: if the default adapter raises and a backup provider is configured
\* with an adapter, the backup adapter is invoked with the same request, and
\* when it returns the call returns exactly the backup adapter's output.
C2_BackupOutputReturned ==
    \A c \in CallIds :
        LET call == calls[c] IN
        (DefaultInvoked(call) /\ call.invoked[1].status = "raised" /\ BackupAvailable)
            => /\ Len(call.invoked) = 2
               /\ call.invoked[2].provider = backupProvider
               /\ call.invoked[2].request = call.request
               /\ call.invoked[1].request = call.request
               /\ call.invoked[2].status = "ok"
                    => /\ call.pc = "returned"
                       /\ call.result.kind = "value"
                       /\ call.result.value = CallerReceives(call.invoked[2].response)

\* the default adapter raised and the (different) backup adapter returned "ok"
C2_Witness ==
    \E c \in CallIds :
        /\ gwKind = "text"
        /\ backupProvider # defaultProvider
        /\ Len(calls[c].invoked) = 2
        /\ calls[c].invoked[1].status = "raised"
        /\ calls[c].invoked[2].status = "ok"
        /\ calls[c].invoked[2].response.output = "ok"
        /\ calls[c].pc = "returned"

\* C3: if both the default and the backup adapter raise, the caller gets the
\* backup adapter's error object, not the default adapter's, and nothing
\* further is invoked.
C3_BackupErrorPropagates ==
    \A c \in CallIds :
        LET call == calls[c] IN
        (/\ DefaultInvoked(call)
         /\ Len(call.invoked) >= 2
         /\ call.invoked[1].status = "raised"
         /\ call.invoked[2].status = "raised")
            => /\ call.pc = "thrown"
               /\ call.result.kind = "error"
               /\ call.result.error = call.invoked[2].error
               /\ call.result.error # call.invoked[1].error
               /\ Len(call.invoked) = 2

\* both adapters of one call raised
C3_Witness ==
    \E c \in CallIds :
        /\ Len(calls[c].invoked) = 2
        /\ calls[c].invoked[1].status = "raised"
        /\ calls[c].invoked[2].status = "raised"
        /\ calls[c].pc = "thrown"

\* C4: if the default adapter raises and no backup is configured, or the
\* configured backup key has no adapter, the caller receives the very error
\* object the default adapter raised and no other adapter is invoked.
C4_OriginalErrorWithoutBackup ==
    \A c \in CallIds :
        LET call == calls[c] IN
        (DefaultInvoked(call) /\ call.invoked[1].status = "raised" /\ ~BackupAvailable)
            => /\ call.pc = "thrown"
               /\ call.result.kind = "error"
               /\ call.result.error = call.invoked[1].error
               /\ Len(call.invoked) = 1

\* the default adapter raised while the configured backup key had no adapter
C4_Witness ==
    \E c \in CallIds :
        /\ backupProvider # "" /\ ~HasAdapter(backupProvider)
        /\ DefaultInvoked(calls[c])
        /\ calls[c].invoked[1].status = "raised"
        /\ calls[c].pc = "thrown"

\* C5 (as claimed): when no adapter exists for the default provider the call
\* fails at once with the "no adapter for default provider" error and no
\* adapter, the backup's included, is invoked.
C5_NoAdapterFailsImmediately ==
    \A c \in CallIds :
        LET call == calls[c] IN
        (call.pc # "idle" /\ ~HasAdapter(defaultProvider))
            => /\ call.pc = "thrown"
               /\ call.result.error = NoAdapterError(c)
               /\ call.invoked = << >>

\* C6 (as claimed): a call invokes at most two adapter generate operations,
\* the first on the default provider, the second on the backup provider and
\* only after the first has completed with a failure; never two in flight,
\* never any other provider.
C6_StrictTwoTier ==
    \A c \in CallIds :
        LET inv == calls[c].invoked IN
        /\ Len(inv) <= 2
        /\ Len(inv) >= 1 => (inv[1].tier = "default" /\ inv[1].provider = defaultProvider)
        /\ Len(inv) = 2 => /\ inv[2].tier = "backup"
                           /\ inv[2].provider = backupProvider
                           /\ inv[1].status = "raised"
        /\ Cardinality({i \in 1..Len(inv) : inv[i].status = "pending"}) <= 1
        /\ \A i \in 1..Len(inv) : inv[i].provider \in {defaultProvider, backupProvider}

(***************************************************************************)
(* Properties of the model validator (specification SpecValidator)         *)
(***************************************************************************)
\* the three models of the validation in progress
Candidates == {vRequested, aDefaultModel, FallbackModel(aProvider)}

\* the validation has completed on a list the provider delivered
ValidatedOnLiveList == vPc = "validated" /\ vFetched.source = "live"

\* defaultModel if non-empty, otherwise fallbackModel
DefaultElseFallback ==
    IF aDefaultModel # EmptyString THEN aDefaultModel ELSE FallbackModel(aProvider)

\* C7: when the live fetch succeeds and the list contains at least one of
\* requested, default and fallback model, the result is the first of the
\* three, in that order, that is in the list.
C7_FirstListedWins ==
    (ValidatedOnLiveList /\ Candidates \cap vFetched.models # {})
        => /\ ~vResult.raised
           /\ vResult.model =
                (IF vRequested # Undefined /\ vRequested \in vFetched.models
                    THEN vRequested
                 ELSE IF aDefaultModel \in vFetched.models THEN aDefaultModel
                 ELSE FallbackModel(aProvider))

\* a requested model and a default model both missing from the live list,
\* the fallback model in it
C7_Witness ==
    /\ ValidatedOnLiveList
    /\ Truthy(vRequested)
    /\ vRequested \notin vFetched.models
    /\ aDefaultModel \notin vFetched.models
    /\ FallbackModel(aProvider) \in vFetched.models
    /\ vResult.model = FallbackModel(aProvider)

\* C8: when the live fetch succeeds but the list contains none of the three,
\* the result is defaultModel if non-empty, otherwise fallbackModel, and the
\* validator does not raise.
C8_NoneListedUsesDefault ==
    (ValidatedOnLiveList /\ Candidates \cap vFetched.models = {})
        => /\ ~vResult.raised
           /\ vResult.model = DefaultElseFallback

\* a non-empty live list that holds none of the three, with a requested model
C8_Witness ==
    /\ ValidatedOnLiveList
    /\ vFetched.models # {}
    /\ Candidates \cap vFetched.models = {}
    /\ Truthy(vRequested)
    /\ Truthy(aDefaultModel)
    /\ vResult.model = aDefaultModel

\* C9 (as claimed): for every provider, gemini included, when the live fetch
\* fails the result is defaultModel if non-empty, else fallbackModel, whatever
\* the requested model, and the validator does not raise.
C9_FetchFailureUsesDefault ==
    (vPc = "validated" /\ vFetched.source # "live")
        => /\ ~vResult.raised
           /\ vResult.model = DefaultElseFallback

\* C10: the validator never fails: every validation completes without
\* raising and yields a model identifier.
C10_ValidatorNeverRaises ==
    vPc = "validated"
        => /\ ~vResult.raised
           /\ Truthy(vResult.model)
           /\ vResult.model \in Candidates

\* a validation whose list fetch threw, on an adapter without default model
C10_Witness ==
    /\ vPc = "validated"
    /\ vFetched.threw
    /\ aDefaultModel = EmptyString
    /\ vResult.model = FallbackModel(aProvider)

\* the validator's result is an entry of the list the provider delivered
ReturnedFromLiveList ==
    vFetched.source = "live" /\ vResult.model \in vFetched.models

\* C11 (as claimed): whenever the returned identifier is not a member of the
\* live list consulted in the call, the call went through the last step and
\* returned defaultModel (fallbackModel when defaultModel is empty); a
\* requested model that is not in the live list is returned only when it
\* equals the default or the fallback model.
C11_UnlistedOnlyFromLastStep ==
    (vPc = "validated" /\ ~ReturnedFromLiveList)
        => /\ vResult.via = "final"
           /\ vResult.model = DefaultElseFallback
           /\ vResult.model = vRequested
                => vRequested \in {aDefaultModel, FallbackModel(aProvider)}

\* the three includes() tests accepted the returned model
AcceptedAsValidated == vResult.via \in {"candidate", "default", "fallback"}

\* ids the provider listed for the previous call and no longer lists
DroppedSinceEarlier ==
    IF vEarlier.source = "live" /\ vFetched.source = "live"
    THEN vEarlier.models \ vFetched.models
    ELSE {}

\* C12: every validation call fetches the model list anew and consults only
\* that list: a validation has completed only after a fetch of its own, and
\* a model the provider listed for the previous call and has dropped since is
\* not accepted as validated by this call.
C12_ListFetchedAnew ==
    vPc = "validated"
        => /\ vFetched # NotFetched
           /\ AcceptedAsValidated => vResult.model \notin DroppedSinceEarlier

\* the second call requests a model the first call's list had and the second
\* call's list lacks
C12_Witness ==
    /\ vPc = "validated"
    /\ vRequested \in DroppedSinceEarlier
    /\ vResult.model # vRequested

\* C13 (as claimed): the gemini validator strips the `models/` prefix on both
\* sides: a requested (else default) model whose unprefixed name is in the
\* live list is returned, in the form in which it was supplied.
C13_PrefixStrippedBothSides ==
    (aProvider = "gemini" /\ ValidatedOnLiveList)
        => LET candidateModel == IF Truthy(vRequested) THEN vRequested ELSE aDefaultModel
           IN  /\ StripModelsPrefix(candidateModel) \in vFetched.models
                    => vResult.model = candidateModel
               /\ (/\ StripModelsPrefix(candidateModel) \notin vFetched.models
                   /\ StripModelsPrefix(aDefaultModel) \in vFetched.models)
                    => vResult.model = aDefaultModel

(***************************************************************************)
(* Properties of a text adapter's generate (specification SpecAdapter)     *)
(***************************************************************************)
\* the model a generation request names: the body's `model`, for gemini the
\* part of the url after `models/`
ModelNamedIn(request) ==
    IF request.bodyModel # Undefined THEN request.bodyModel ELSE Tail(request.path)

\* the requested model is missing from the live list, the configured default is in it
RequestedUnlistedDefaultListed ==
    /\ vFetched.source = "live"
    /\ Truthy(vRequested)
    /\ vRequested \notin vFetched.models
    /\ aDefaultModel \in vFetched.models

\* C14: every generation request of a generate call names exactly the model
\* the validator returned for that call; when the requested model is not in
\* the live list and the configured default is, the request names the
\* default model and not the requested one.
C14_RequestNamesValidatedModel ==
    \A i \in 1..Len(gSent) :
        /\ ModelNamedIn(gSent[i].request) = vResult.model
        /\ RequestedUnlistedDefaultListed
            => /\ ModelNamedIn(gSent[i].request) = aDefaultModel
               /\ ModelNamedIn(gSent[i].request) # vRequested

\* a request is in flight for a call that asked for an unlisted model while
\* the default was listed
C14_Witness ==
    /\ vPc = "requesting"
    /\ RequestedUnlistedDefaultListed
    /\ ModelNamedIn(gSent[1].request) = aDefaultModel

\* C18: constructing an adapter with a missing (undefined or empty)
\* credential fails at construction: the constructor raises and no adapter
\* exists that could fail later in generate.
C18_MissingCredentialRejected ==
    (vPc # "new" /\ aCredential \in {Undefined, EmptyString})
        => /\ vPc = "rejected"
           /\ aApiKey = Undefined
           /\ gSent = << >>

\* the constructor was called with the empty string and threw
C18_Witness ==
    /\ vPc = "rejected"
    /\ aCredential = EmptyString

\* generate has settled (returned or raised)
GenerateSettled == vPc \in {"returned", "raised"}

\* the i-th generation request of the call got a response with status >= 400
StatusError(i) == ~gSent[i].response.throws /\ gSent[i].response.status >= 400

\* the error carries the status code of the response, and the provider's
\* message when the response body has one
CarriesStatus(err, resp) ==
    /\ err.origin = "http"
    /\ err.status = resp.status
    /\ (resp.parses /\ resp.errorMessage # "") => err.body = resp.errorMessage

C20_NeverEmptyOutput ==
    \A i \in 1..Len(gSent) :
        LET resp == gSent[i].response IN
        /\ (resp.status = 200 /\ resp.parses /\ resp.content = Undefined)
            => /\ gSent[i].outcome.kind = "error"
               /\ gSent[i].outcome.error.origin = "format"
        /\ (vPc = "returned" /\ i = Len(gSent))
            => /\ gResult.output = Trim(resp.content)
               /\ gResult.output # EmptyString

(***************************************************************************)
(* Properties of gateway construction (specification SpecCreate)           *)
(***************************************************************************)
\* the secret store returned no credential for the key of this visit
CredentialMissing(visit) == visit.asked /\ ~Truthy(visit.secret)

\* C15: gateway construction never fails because a credential is missing:
\* a provider that requires a credential and for which the secret store
\* returns none is skipped without an adapter, the loop goes on, and
\* construction completes (also with zero adapters).
C15_MissingCredentialSkipped ==
    /\ \A i \in 1..Len(cLog) :
            CredentialMissing(cLog[i])
                => /\ cLog[i].outcome = "no-credential"
                   /\ cLog[i].key \notin adapters
                   /\ i = Len(cLog) => cPc # "failed"
    /\ (cPc = "done" /\ \A i \in 1..Len(cLog) : CredentialMissing(cLog[i]))
            => adapters = {}

\* create has returned a gateway without adapters after the store had no
\* credential for any of three providers
C15_Witness ==
    /\ cPc = "done"
    /\ Len(cLog) = 3
    /\ \A i \in 1..Len(cLog) : CredentialMissing(cLog[i])
    /\ adapters = {}

\* configured keys that have a credential available or require none
Equipped ==
    {cLog[i].key : i \in {j \in 1..Len(cLog) :
        /\ cLog[j].key \in MetadataKeys
        /\ (~RequiresApiKey(cLog[j].key) \/ (cLog[j].asked /\ Truthy(cLog[j].secret)))}}

\* C16 (as claimed): after construction the gateway holds an adapter for
\* exactly the configured providers that have a credential available or
\* require none (e.g. `local`), and for no other key.
C16_AdapterPerEquippedProvider ==
    cPc = "done" => adapters = Equipped

\* C17 (as claimed): a configured key without ProviderMetadata entry makes
\* construction fail; it is never skipped silently.
C17_MissingMetadataFails ==
    \A i \in 1..Len(cLog) :
        cLog[i].key \notin MetadataKeys
            => /\ cPc = "failed"
               /\ i = Len(cLog)

\* the i-th generation request got a 2xx response that generate could not use
ProtocolError(i) ==
    /\ ~gSent[i].response.throws
    /\ gSent[i].response.status = 200
    /\ gSent[i].outcome.kind = "error"

\* C21 (as claimed): once a generation request has been answered with a 2xx
\* response whose body does not match the expected schema, generate raises
\* that error without sending a further generation request.
C21_ProtocolErrorNotRetried ==
    \A i \in 1..Len(gSent) :
        ProtocolError(i)
            => /\ i = Len(gSent)
               /\ vPc = "raised"
               /\ gResult = gSent[i].outcome

\* C22: gemini's generate sends its requests to v1, then v1beta, one at a
\* time and each only after the one before has failed; it returns the
\* result of the first version that succeeds and sends nothing after it;
\* it raises only after the last version, and then that version's error.
C22_GeminiVersionsInOrder ==
    aProvider = "gemini"
        => /\ Len(gSent) <= Len(apiVersions)
           /\ \A i \in 1..Len(gSent) :
                /\ gSent[i].request.apiVersion = apiVersions[i]
                /\ i < Len(gSent) => gSent[i].outcome.kind = "error"
                /\ gSent[i].outcome.kind = "value"
                    => /\ i = Len(gSent)
                       /\ vPc = "returned"
                       /\ gResult = gSent[i].outcome
           /\ vPc = "requesting" => gSent[Len(gSent)].outcome.kind = "none"
           /\ vPc = "raised"
                => /\ Len(gSent) = Len(apiVersions)
                   /\ gResult = gSent[Len(gSent)].outcome
                   /\ gResult.kind = "error"

\* v1 answered 500, v1beta answered 429: generate raised the v1beta error
C22_Witness ==
    /\ aProvider = "gemini"
    /\ vPc = "raised"
    /\ Len(gSent) = 2
    /\ gSent[1].response.status = 500
    /\ gSent[2].response.status = 429
    /\ gResult.error.status = 429

\* C23 (as claimed): for every adapter, when the provider answers the
\* generation request with status 429, generate raises an error whose message
\* contains "429" and rate-limit guidance.
C23_RateLimitGuidance ==
    \A i \in 1..Len(gSent) :
        (~gSent[i].response.throws /\ gSent[i].response.status = 429 /\ GenerateSettled)
            => /\ gResult.kind = "error"
               /\ gResult.error.origin = "http"
               /\ gResult.error.status = 429
               /\ gResult.error.guidance = "Rate limit exceeded"

\* C29 (as claimed): every constructed adapter holds a non-empty credential:
\* for every input, also one of whitespace only, the constructor raises or
\* the stored, trimmed apiKey is non-empty.
C29_StoredCredentialNonEmpty ==
    vPc \notin {"new", "rejected"} => aApiKey # EmptyString

(***************************************************************************)
(* Further properties of Gateway.generate (specification Spec)             *)
(***************************************************************************)
\* the call has left generate
CallSettled(call) == call.pc \in {"returned", "thrown"}

\* what leaves generate when the adapter invocation inv decides the call
OutcomeOf(inv) ==
    IF inv.status = "ok"
    THEN [kind |-> "value", value |-> CallerReceives(inv.response), error |-> NoError]
    ELSE [kind |-> "error", value |-> "", error |-> inv.error]

\* the outcome of call c run on its own against the gateway's configuration,
\* given the responses its adapter invocations got
OutcomeAlone(c) ==
    LET call == calls[c]
        inv == call.invoked
    IN  IF HasAdapter(defaultProvider)
        THEN /\ Len(inv) >= 1
             /\ inv[1].provider = defaultProvider
             /\ inv[1].request = call.request
             /\ IF inv[1].status = "raised" /\ BackupAvailable
                THEN /\ Len(inv) = 2
                     /\ inv[2].provider = backupProvider
                     /\ inv[2].request = call.request
                     /\ call.result = OutcomeOf(inv[2])
                ELSE /\ Len(inv) = 1
                     /\ call.result = OutcomeOf(inv[1])
        ELSE IF BackupAvailable
             THEN /\ Len(inv) = 1
                  /\ inv[1].provider = backupProvider
                  /\ inv[1].request = call.request
                  /\ call.result = OutcomeOf(inv[1])
             ELSE /\ Len(inv) = 0
                  /\ call.result = [kind |-> "error", value |-> "", error |-> NoAdapterError(c)]

\* C25: calls of generate on one gateway do not interfere: no step of a call
\* changes the gateway's adapter map or its default and backup keys, a step
\* changes the state of one call only, and every settled call has the outcome
\* it has when run alone with the same adapter responses.
C25_CallsDoNotInterfere ==
    /\ [][/\ adapters' = adapters
          /\ defaultProvider' = defaultProvider
          /\ backupProvider' = backupProvider
          /\ \A c, d \in CallIds : (calls'[c] # calls[c] /\ d # c) => calls'[d] = calls[d]]_vars
    /\ [](\A c \in CallIds : CallSettled(calls[c]) => OutcomeAlone(c))

\* call 1 has returned through the fallback while call 2, for another request,
\* is awaiting the backup adapter
C25_Witness ==
    /\ calls[1].pc = "returned"
    /\ Len(calls[1].invoked) = 2
    /\ calls[2].pc = "awaitBackup"
    /\ calls[2].request # calls[1].request

\* C28 (as claimed): within one call of generate no provider's adapter is
\* invoked more than once, also when the backup key equals the default key.
C28_EachProviderInvokedOnce ==
    \A c \in CallIds :
        \A i, j \in 1..Len(calls[c].invoked) :
            i # j => calls[c].invoked[i].provider # calls[c].invoked[j].provider

(***************************************************************************)
(* Properties of the image adapters (specification SpecImage)              *)
(***************************************************************************)
\* generate has settled
ImageSettled == iPc \in {"returned", "raised"}

\* C24 (as claimed): no adapter's generate raises because the requested model
\* is unknown or unsupported; the model degrades to a usable one and the
\* generation request is still attempted.
C24_ModelFailureNeverSurfaced ==
    /\ iResult.kind = "error" => iResult.origin \notin {"unsupported-model", "model-list"}
    /\ (ImageSettled /\ iResult.origin # "prompt") => iBody # NoBody

\* C27: the OpenAI image adapter sends n = 1 when the request has no n or
\* n = 0, and otherwise the smaller of the requested n and the model's
\* maximum (1 for dall-e-3, 10 for dall-e-2 and gpt-image-1); the n sent
\* never exceeds that maximum.
C27_CountClamped ==
    (iProvider = "openai" /\ iBody # NoBody)
        => LET limit == IF iBody.model = <<"dall-e-3">> THEN 1 ELSE 10
               asked == iRequest.n
           IN  /\ iBody.model \in supportedModels
               /\ iBody.n <= limit
               /\ (asked = NoCount \/ asked = <<0>>) => iBody.n = 1
               /\ (asked # NoCount /\ asked # <<0>>)
                    => iBody.n = (IF asked[1] > limit THEN limit ELSE asked[1])

\* 11 images of dall-e-2 were asked for, 10 are requested
C27_Witness ==
    /\ iProvider = "openai"
    /\ iPc = "requesting"
    /\ iRequest.n = <<11>>
    /\ iBody.model = <<"dall-e-2">>
    /\ iBody.n = 10

(***************************************************************************)
(* Properties of the plugin lifecycle (specification SpecLifecycle)        *)
(***************************************************************************)
\* C26 (as claimed): window.aiNNS never refers to the gateway of a plugin
\* instance that has been unloaded: once onunload has run unregisterAiNNS,
\* window.aiNNS is absent and that instance never sets it again.
C26_NoDanglingAiNNS ==
    windowAiNNS # Absent => ~plugins[windowAiNNS].unloaded

(***************************************************************************)
(* Properties of SecretsManager (specification SpecSecrets)                *)
(***************************************************************************)
\* C30 (as claimed): every getSecret(key) called after setSecret(key, value),
\* with no setSecret or deleteSecret for that key in between or while it
\* waits, returns value, also when setSecret was called before the initial
\* load had finished.
C30_GetReturnsLastSet ==
    \A k \in 1..Len(sCalls) :
        (sCalls[k].op = "get" /\ sCalls[k].pc = "done" /\ sCalls[k].expected # NoSecret)
            => sCalls[k].returned = sCalls[k].expected

====
